---- MODULE Spec2Model ----
(***************************************************************************)
(* A model of simple_parser.js: a text-adventure command parser.           *)
(*                                                                         *)
(* A JavaScript string is a sequence of one-character strings, an array is *)
(* a sequence, and TokenList.index keeps its JavaScript value (it starts   *)
(* at -1 and tokens[index] is the element index + 1 of the sequence).      *)
(***************************************************************************)
EXTENDS Integers, Sequences, FiniteSets, TLC

\* ------------------------------------------------------------------------
\* JavaScript values that are not strings of the program

\* null: a one-element sequence whose element is no single character, so
\* that it is comparable with, and different from, every string.
null == <<"null">>

\* undefined: tokens[-1], a missing argument, the value of a function that
\* does not return.
undefined == <<"undefined">>

\* ------------------------------------------------------------------------
\* Character classes of the regular expressions and string methods

\* \s of a JavaScript regular expression, and the white space of trim()
IsSpace(c) == c \in {" ", "\t", "\n", "\r"}

\* . of a JavaScript regular expression: anything but a line terminator
IsDot(c) == c \notin {"\n", "\r"}

LowerLetters ==
    <<"a","b","c","d","e","f","g","h","i","j","k","l","m",
      "n","o","p","q","r","s","t","u","v","w","x","y","z">>

UpperLetters ==
    <<"A","B","C","D","E","F","G","H","I","J","K","L","M",
      "N","O","P","Q","R","S","T","U","V","W","X","Y","Z">>

\* [a-z]
IsLowerLetter(c) == \E i \in DOMAIN LowerLetters : LowerLetters[i] = c

\* String.prototype.toLowerCase, one character
LowerChar(c) ==
    IF \E i \in DOMAIN UpperLetters : UpperLetters[i] = c
    THEN LowerLetters[CHOOSE i \in DOMAIN UpperLetters : UpperLetters[i] = c]
    ELSE c

toLowerCase(s) == [i \in 1..Len(s) |-> LowerChar(s[i])]

\* The length of the run of white space of s that starts at position i
RECURSIVE SpaceRun(_, _)
SpaceRun(s, i) ==
    IF i <= Len(s) /\ IsSpace(s[i]) THEN 1 + SpaceRun(s, i + 1) ELSE 0

\* The length of the run of non-white-space of s that starts at position i
RECURSIVE NonSpaceRun(_, _)
NonSpaceRun(s, i) ==
    IF i <= Len(s) /\ ~IsSpace(s[i]) THEN 1 + NonSpaceRun(s, i + 1) ELSE 0

\* The length of the run of [a-z] of s that starts at position i
RECURSIVE LetterRun(_, _)
LetterRun(s, i) ==
    IF i <= Len(s) /\ IsLowerLetter(s[i]) THEN 1 + LetterRun(s, i + 1) ELSE 0

\* String.prototype.trim
RECURSIVE TrimEnd(_)
TrimEnd(s) ==
    IF s # <<>> /\ IsSpace(s[Len(s)]) THEN TrimEnd(SubSeq(s, 1, Len(s) - 1)) ELSE s

trim(s) == TrimEnd(SubSeq(s, SpaceRun(s, 1) + 1, Len(s)))

\* s has the characters of w at position i
HasAt(s, i, w) ==
    /\ i + Len(w) - 1 <= Len(s)
    /\ \A k \in 1..Len(w) : s[i + k - 1] = w[k]

\* Array.prototype.join(' ') of an array of strings
RECURSIVE join(_)
join(words) ==
    IF words = <<>> THEN <<>>
    ELSE IF Len(words) = 1 THEN words[1]
    ELSE words[1] \o <<" ">> \o join(Tail(words))

\* String.prototype.split(' '): the pieces between single spaces, empty
\* pieces kept; the empty string splits into one empty piece.
RECURSIVE SplitFrom(_, _, _)
SplitFrom(s, i, piece) ==
    IF i > Len(s) THEN <<piece>>
    ELSE IF s[i] = " " THEN <<piece>> \o SplitFrom(s, i + 1, <<>>)
    ELSE SplitFrom(s, i + 1, Append(piece, s[i]))

split(s) == SplitFrom(s, 1, <<>>)

\* ------------------------------------------------------------------------
\* Constants of the program

TT_WORD == <<":","w","o","r","d",":">>

\* 'a|an|the': the alternatives of the article group, in the order the
\* regular expression tries them.
ARTICLES == << <<"a">>, <<"a","n">>, <<"t","h","e">> >>

\* ------------------------------------------------------------------------
\* tokenizeInputString

\* A match of /\s+(a|an|the)\s+/ that starts at position i: its length, or 0.
\* Both \s+ are greedy and take their whole run: a shorter first run is
\* followed by white space, not by an article, and nothing follows the
\* second one.  At most one alternative is followed by white space.
ArticleMatchAt(s, i) ==
    LET lead == SpaceRun(s, i)
        ok(k) == /\ HasAt(s, i + lead, ARTICLES[k])
                 /\ SpaceRun(s, i + lead + Len(ARTICLES[k])) > 0
    IN  IF lead = 0 \/ ~\E k \in DOMAIN ARTICLES : ok(k) THEN 0
        ELSE LET k == CHOOSE k \in DOMAIN ARTICLES :
                        ok(k) /\ \A j \in 1..(k - 1) : ~ok(j)
             IN  lead + Len(ARTICLES[k]) + SpaceRun(s, i + lead + Len(ARTICLES[k]))

\* .replace(articlesRegEx, ' '): the matches are found left to right, each
\* search resuming where the previous match ended.
RECURSIVE ReplaceArticlesFrom(_, _)
ReplaceArticlesFrom(s, i) ==
    IF i > Len(s) THEN <<>>
    ELSE LET m == ArticleMatchAt(s, i)
         IN  IF m > 0 THEN <<" ">> \o ReplaceArticlesFrom(s, i + m)
             ELSE <<s[i]>> \o ReplaceArticlesFrom(s, i + 1)

replaceArticles(s) == ReplaceArticlesFrom(s, 1)

\* .replace(/\s+/g, ' ')
RECURSIVE CollapseFrom(_, _)
CollapseFrom(s, i) ==
    IF i > Len(s) THEN <<>>
    ELSE LET m == SpaceRun(s, i)
         IN  IF m > 0 THEN <<" ">> \o CollapseFrom(s, i + m)
             ELSE <<s[i]>> \o CollapseFrom(s, i + 1)

collapseSpaces(s) == CollapseFrom(s, 1)

tokenizeInputString(str) ==
    split(collapseSpaces(replaceArticles(toLowerCase(trim(str)))))

\* ------------------------------------------------------------------------
\* Token and tokenizeRule

Token(type, value) == [type |-> type, value |-> value]

\* What tokenizeRule leaves when `for (const word of words)` runs on the
\* null of a quoted part with no [a-z]: a TypeError is thrown.
TypeError == <<"TypeError">>

\* The least k >= 1 such that s[i+1 .. i+k] are all matched by . and
\* s[i+k+1] is a double quote, or 0: the lazy .+? of /".+?"/ at an opening
\* quote at position i.
RECURSIVE LazyQuoted(_, _, _)
LazyQuoted(s, i, k) ==
    IF i + k + 1 > Len(s) \/ ~IsDot(s[i + k]) THEN 0
    ELSE IF s[i + k + 1] = "\"" THEN k
    ELSE LazyQuoted(s, i, k + 1)

\* A match of /".+?"|\S+/ that starts at position i: its length, or 0.
RulePartAt(s, i) ==
    LET k == IF s[i] = "\"" THEN LazyQuoted(s, i, 1) ELSE 0
    IN  IF k > 0 THEN k + 2 ELSE NonSpaceRun(s, i)

\* rule.match(/".+?"|\S+/g): all the matches, left to right (the empty
\* sequence stands for the null of no match).
RECURSIVE RulePartsFrom(_, _)
RulePartsFrom(s, i) ==
    IF i > Len(s) THEN <<>>
    ELSE LET m == RulePartAt(s, i)
         IN  IF m > 0 THEN <<SubSeq(s, i, i + m - 1)>> \o RulePartsFrom(s, i + m)
             ELSE RulePartsFrom(s, i + 1)

\* part.match(/[a-z]+/g): the maximal runs of lower-case letters
RECURSIVE LetterWordsFrom(_, _)
LetterWordsFrom(s, i) ==
    IF i > Len(s) THEN <<>>
    ELSE LET m == LetterRun(s, i)
         IN  IF m > 0 THEN <<SubSeq(s, i, i + m - 1)>> \o LetterWordsFrom(s, i + m)
             ELSE LetterWordsFrom(s, i + 1)

\* PartTokens with a quoted part taken as one literal, its first word
PartTokens_OneLiteral(part) ==
    IF part[1] = "\""
    THEN <<Token(TT_WORD, LetterWordsFrom(part, 1)[1])>>
    ELSE <<Token(part, null)>>

\* The tokens of one part: a literal per word of a part that starts with a
\* double quote, one symbol named after any other part.
PartTokens(part) ==
    IF part[1] = "\""
    THEN LET words == LetterWordsFrom(part, 1)
         IN  [k \in 1..Len(words) |-> Token(TT_WORD, words[k])]
    ELSE <<Token(part, null)>>

\* A part that starts with a double quote and holds no lower-case letter
PartThrows(part) == part[1] = "\"" /\ LetterWordsFrom(part, 1) = <<>>

RECURSIVE FlatTokens(_)
FlatTokens(parts) ==
    IF parts = <<>> THEN <<>> ELSE PartTokens(parts[1]) \o FlatTokens(Tail(parts))

tokenizeRule(rule) ==
    LET ruleParts == RulePartsFrom(rule, 1)
    IN  IF \E k \in DOMAIN ruleParts : PartThrows(ruleParts[k]) THEN TypeError
        ELSE FlatTokens(ruleParts)

\* ------------------------------------------------------------------------
\* TokenList

TokenList(tokens) == [tokens |-> tokens, index |-> -1]

currentToken(tl) ==
    IF tl.index < Len(tl.tokens)
    THEN (IF tl.index >= 0 THEN tl.tokens[tl.index + 1] ELSE undefined)
    ELSE null

\* nextToken: the list after the call; its value is currentToken of it.
nextToken(tl) == [tl EXCEPT !.index = tl.index + 1]

\* lookAhead: the index is advanced and put back, so the list is unchanged;
\* the value is the token after the current one.
lookAhead(tl) == currentToken(nextToken(tl))

\* currentToken() === null, of a list whose tokens hold no null
IsNull(tl) == tl.index >= Len(tl.tokens)

\* ------------------------------------------------------------------------
\* The strings of the program

w_give == <<"g","i","v","e">>
w_pick == <<"p","i","c","k">>
w_dance == <<"d","a","n","c","e">>
w_put == <<"p","u","t">>
w_place == <<"p","l","a","c","e">>
w_gain == <<"g","a","i","n">>
w_up == <<"u","p">>
w_on == <<"o","n">>
w_to == <<"t","o">>
w_possession == <<"p","o","s","s","e","s","s","i","o","n">>
w_of == <<"o","f">>
w_single == <<"s","i","n","g","l","e">>
w_dance_style == <<"d","a","n","c","e","_","s","t","y","l","e">>
w_old == <<"o","l","d">>
w_rusty == <<"r","u","s","t","y">>
w_key == <<"k","e","y">>
w_man == <<"m","a","n">>
w_desk == <<"d","e","s","k">>
w_big == <<"b","i","g">>
w_small == <<"s","m","a","l","l">>
w_crate == <<"c","r","a","t","e">>
w_waltz == <<"w","a","l","t","z">>
w_tango == <<"t","a","n","g","o">>
w_funky == <<"f","u","n","k","y">>
w_chicken == <<"c","h","i","c","k","e","n">>

s_multipleObjectsFound ==
    <<"m","u","l","t","i","p","l","e"," ","o","b","j","e","c","t","s",
      " ","f","o","u","n","d">>
s_noObjectsFound ==
    <<"n","o"," ","o","b","j","e","c","t","s"," ","f","o","u","n","d">>
s_dontKnowThatDance ==
    <<"I"," ","d","o","n","'","t"," ","k","n","o","w"," ","t","h","a",
      "t"," ","d","a","n","c","e">>
s_dontUnderstand ==
    <<"I"," ","d","o","n","'","t"," ","u","n","d","e","r","s","t","a",
      "n","d",".">>
s_YouTakeThe ==
    <<"Y","o","u"," ","t","a","k","e"," ","t","h","e"," ">>
s_fromThe ==
    <<" ","f","r","o","m"," ","t","h","e"," ">>
s_YouGiveThe ==
    <<"Y","o","u"," ","g","i","v","e"," ","t","h","e"," ">>
s_toThe ==
    <<" ","t","o"," ","t","h","e"," ">>
s_YouFlail ==
    <<"Y","o","u"," ","f","l","a","i","l"," ","a","r","o","u","n","d",
      " ","w","i","l","d","l","y","."," ","E","v","e","r","y","o","n",
      "e"," ","j","u","d","g","e","s"," ","y","o","u",".">>
s_YouDanceThe ==
    <<"Y","o","u"," ","d","a","n","c","e"," ","t","h","e"," ">>
s_veryWell ==
    <<" ","v","e","r","y"," ","w","e","l","l">>
s_YouPutThe ==
    <<"Y","o","u"," ","p","u","t"," ","t","h","e"," ">>
s_onThe ==
    <<" ","o","n"," ","t","h","e"," ">>
s_undefined ==
    <<"u","n","d","e","f","i","n","e","d">>

\* A quoted span of a rule string, and the space between two parts
quoted(s) == <<"\"">> \o s \o <<"\"">>
sp == <<" ">>

\* ------------------------------------------------------------------------
\* GameObject, Verb, the verb rules and the symbol parsing functions

GameObject(name) == [name |-> name]

\* A Map keeps its entries in insertion order: a sequence of <<rule, action>>
Verb(name, ruleActionMap) == [name |-> name, ruleActionMap |-> ruleActionMap]

verbs ==
    << Verb(<<w_give>>,
            << <<w_single \o sp \o w_single, "actionGive">>,
               <<w_single \o sp \o quoted(w_to) \o sp \o w_single,
                 "actionGiveReversed">> >>),
       Verb(<<w_pick>>,
            << <<quoted(w_up) \o sp \o w_single, "actionTake">>,
               <<quoted(w_up) \o sp \o w_single \o sp \o quoted(w_on)
                   \o sp \o w_single, "actionTakeFrom">> >>),
       Verb(<<w_dance>>,
            << <<<<>>, "actionDance">>,
               <<w_dance_style, "actionDanceWithStyle">> >>),
       Verb(<<w_put, w_place>>,
            << <<w_single \o sp \o quoted(w_on) \o sp \o w_single,
                 "actionPut">> >>),
       Verb(<<w_gain>>,
            << <<quoted(w_possession \o sp \o w_of) \o sp \o w_single,
                 "actionTake">> >>) >>

\* The keys of tokenParsingFunctionMap
tokenParsingFunctionMap == {w_single, w_dance_style}

\* Array.prototype.includes
includes(array, x) == \E k \in DOMAIN array : array[k] = x

\* ------------------------------------------------------------------------
\* The actions.  action(...actionParameters) passes the array as the
\* positional arguments: a parameter beyond its length is undefined, and
\* reading .name of undefined throws a TypeError.

actionTake(args) ==
    IF Len(args) < 1 THEN TypeError
    ELSE s_YouTakeThe \o join(args[1].name)

actionTakeFrom(args) ==
    IF Len(args) < 2 THEN TypeError
    ELSE s_YouTakeThe \o join(args[1].name) \o s_fromThe \o join(args[2].name)

\* actionGive(recipient, object)
actionGive(args) ==
    IF Len(args) < 2 THEN TypeError
    ELSE s_YouGiveThe \o join(args[2].name) \o s_toThe \o join(args[1].name)

\* actionGiveReversed(object, recipient) calls actionGive(recipient, object)
\* and returns nothing.
actionGiveReversed(args) ==
    IF Len(args) < 2 THEN TypeError ELSE undefined

actionDance(args) == s_YouFlail

actionDanceWithStyle(args) ==
    s_YouDanceThe \o (IF Len(args) < 1 THEN s_undefined ELSE args[1]) \o s_veryWell

actionPut(args) ==
    IF Len(args) < 2 THEN TypeError
    ELSE s_YouPutThe \o join(args[1].name) \o s_onThe \o join(args[2].name)

\* action(...actionParameters)
Call(action, args) ==
    CASE action = "actionTake" -> actionTake(args)
      [] action = "actionTakeFrom" -> actionTakeFrom(args)
      [] action = "actionGive" -> actionGive(args)
      [] action = "actionGiveReversed" -> actionGiveReversed(args)
      [] action = "actionDance" -> actionDance(args)
      [] action = "actionDanceWithStyle" -> actionDanceWithStyle(args)
      [] action = "actionPut" -> actionPut(args)

\* ------------------------------------------------------------------------
\* parseSingle

\* The fake room
FakeRoom ==
    << GameObject(<<w_old, w_rusty, w_key>>),
       GameObject(<<w_old, w_man>>),
       GameObject(<<w_desk>>),
       GameObject(<<w_big, w_crate>>),
       GameObject(<<w_small, w_crate>>) >>

\* The truth value of a token in a condition: null, undefined and the
\* empty string are falsy.
Truthy(t) == t # null /\ t # undefined /\ t # <<>>

\* The default score: for every matching word increase the score until a
\* word does not match.  The list comes back where the loop left it.
\* (No GameObject has a parseName, so matchScore is always -1 before it.)
RECURSIVE ScoreLoop(_, _, _)
ScoreLoop(gameObject, inputTokens, matchScore) ==
    IF Truthy(currentToken(inputTokens))
       /\ includes(gameObject.name, currentToken(inputTokens))
    THEN ScoreLoop(gameObject, nextToken(inputTokens), matchScore + 1)
    ELSE [matchScore |-> matchScore, inputTokens |-> inputTokens]

\* UpdateBest with >= for >: an object that ties the best score replaces it
UpdateBest_TieReplaces(best, gameObject, index, matchScore) ==
    IF matchScore > 0 /\ matchScore >= best.bestMatchScore
    THEN [bestMatch |-> << <<gameObject, index>> >>, bestMatchScore |-> matchScore]
    ELSE best

\* bestMatch and bestMatchScore after an object scored matchScore and left
\* the list at index
UpdateBest(best, gameObject, index, matchScore) ==
    IF matchScore > 0 /\ matchScore = best.bestMatchScore
    THEN [best EXCEPT !.bestMatch = Append(@, <<gameObject, index>>)]
    ELSE IF matchScore > 0 /\ matchScore > best.bestMatchScore
    THEN [bestMatch |-> << <<gameObject, index>> >>, bestMatchScore |-> matchScore]
    ELSE best

\* The loop over gameObjects, from the k-th on
RECURSIVE ScanObjects(_, _, _, _, _)
ScanObjects(gameObjects, k, startIndex, inputTokens, best) ==
    IF k > Len(gameObjects)
    THEN [bestMatch |-> best.bestMatch, bestMatchScore |-> best.bestMatchScore,
          inputTokens |-> inputTokens]
    ELSE LET s == ScoreLoop(gameObjects[k],
                            [inputTokens EXCEPT !.index = startIndex], 0)
         IN  ScanObjects(gameObjects, k + 1, startIndex, s.inputTokens,
                         UpdateBest(best, gameObjects[k], s.inputTokens.index,
                                    s.matchScore))

\* parseSingle with line 302 left out: on a unique match the index stays
\* where the scan of the last object left it
parseSingle_IndexNotAdopted(gameObjects, inputTokens) ==
    LET scan == ScanObjects(gameObjects, 1, inputTokens.index, inputTokens,
                            [bestMatch |-> <<>>, bestMatchScore |-> 0])
    IN  IF scan.bestMatchScore > 0
        THEN IF Len(scan.bestMatch) = 1
             THEN [result |-> scan.bestMatch[1][1], error |-> null,
                   inputTokens |-> scan.inputTokens]
             ELSE [result |-> null, error |-> s_multipleObjectsFound,
                   inputTokens |-> scan.inputTokens]
        ELSE [result |-> null, error |-> s_noObjectsFound,
              inputTokens |-> scan.inputTokens]

\* parseSingle over the objects getGameObjectsFromCurrentRoom returns: what
\* it returns, and the list it was passed as it leaves it.
parseSingle(gameObjects, inputTokens) ==
    LET scan == ScanObjects(gameObjects, 1, inputTokens.index, inputTokens,
                            [bestMatch |-> <<>>, bestMatchScore |-> 0])
    IN  IF scan.bestMatchScore > 0
        THEN IF Len(scan.bestMatch) = 1
             THEN [result |-> scan.bestMatch[1][1], error |-> null,
                   inputTokens |->
                       [scan.inputTokens EXCEPT !.index = scan.bestMatch[1][2]]]
             ELSE [result |-> null, error |-> s_multipleObjectsFound,
                   inputTokens |-> scan.inputTokens]
        ELSE [result |-> null, error |-> s_noObjectsFound,
              inputTokens |-> scan.inputTokens]

\* ------------------------------------------------------------------------
\* parseDanceStyle

dances == <<w_waltz, w_tango, w_funky \o sp \o w_chicken>>

\* The inner loop: up to n tokens are taken while there is one
RECURSIVE TakeWords(_, _, _)
TakeWords(inputTokens, n, danceWords) ==
    IF n = 0 \/ ~Truthy(currentToken(inputTokens))
    THEN [danceWords |-> danceWords, inputTokens |-> inputTokens]
    ELSE TakeWords(nextToken(inputTokens), n - 1,
                   Append(danceWords, currentToken(inputTokens)))

RECURSIVE TryDances(_, _, _)
TryDances(k, startIndex, inputTokens) ==
    IF k > Len(dances)
    THEN [result |-> null, error |-> s_dontKnowThatDance,
          inputTokens |-> [inputTokens EXCEPT !.index = startIndex]]
    ELSE LET t == TakeWords([inputTokens EXCEPT !.index = startIndex],
                            Len(split(dances[k])), <<>>)
         IN  IF join(t.danceWords) = dances[k]
             THEN [result |-> dances[k], error |-> null,
                   inputTokens |-> t.inputTokens]
             ELSE TryDances(k + 1, startIndex, t.inputTokens)

parseDanceStyle(inputTokens) == TryDances(1, inputTokens.index, inputTokens)

\* ------------------------------------------------------------------------
\* The state: one call of parse(str), or one call of one of its functions

VARIABLES
    pc,               \* where the call is
    str,              \* the string passed to parse or tokenizeInputString
    inputTokens,      \* the TokenList of the input
    inputVerb,        \* the first input token
    verbIdx,          \* the position of `for (const verb of verbs)`
    ruleIdx,          \* the position of `for (const ruleAction of ...)`
    rule,             \* ruleAction[0], or the string passed to tokenizeRule
    action,           \* ruleAction[1]
    ruleTokens,       \* the TokenList of the rule
    actionParameters, \* the parameters collected for the action
    parseResult,      \* what the last symbol parsing function returned
    startIndex,       \* where the last symbol parsing function started
    valueOf,          \* the value resolved at each rule token of this attempt
    result,           \* what parse returned, or the TypeError it threw
    gameObjects,      \* what getGameObjectsFromCurrentRoom returns
    attempts,         \* history: the <<verb, rule>> positions tried, in order
    invoked,          \* history: the actions called, in order
    resolverCalls,    \* history: how many symbol parsing functions were called
    left,             \* history: what the last failed attempt left behind
    segments,         \* the pieces str or rule was assembled from
    passes            \* the results of the successive tokenizeInputString calls

vars ==
    <<pc, str, inputTokens, inputVerb, verbIdx, ruleIdx, rule, action,
      ruleTokens, actionParameters, parseResult, startIndex, valueOf, result,
      gameObjects, attempts, invoked, resolverCalls, left, segments, passes>>

\* The variables of a call of parse
parseVars ==
    <<inputTokens, inputVerb, verbIdx, ruleIdx, rule, action, ruleTokens,
      actionParameters, parseResult, startIndex, valueOf, result, attempts,
      invoked, resolverCalls, left>>

NoResult == [result |-> null, error |-> null]

NothingLeft == [index |-> -1, actionParameters |-> <<>>]

InitParseVars ==
    /\ inputTokens = TokenList(<<>>)
    /\ inputVerb = undefined
    /\ verbIdx = 0
    /\ ruleIdx = 0
    /\ rule = <<>>
    /\ action = "none"
    /\ ruleTokens = TokenList(<<>>)
    /\ actionParameters = <<>>
    /\ parseResult = NoResult
    /\ startIndex = -1
    /\ valueOf = <<>>
    /\ result = undefined
    /\ attempts = <<>>
    /\ invoked = <<>>
    /\ resolverCalls = 0
    /\ left = NothingLeft

\* ------------------------------------------------------------------------
\* Bounds and inputs

\* The most words of a command
MaxWords == 4

\* A verb no Verb names
w_fly == <<"f","l","y">>

\* The first word of a command, and the words after it
FirstWords == {w_give, w_pick, w_dance, w_put, w_fly}
OtherWords ==
    {w_up, w_on, w_to, w_old, w_key, w_man, w_crate, w_waltz, <<"t","h","e">>}

RECURSIVE SeqsUpTo(_, _)
SeqsUpTo(S, n) ==
    IF n = 0 THEN {<<>>}
    ELSE LET shorter == SeqsUpTo(S, n - 1)
         IN  shorter \cup {Append(q, x) : q \in {r \in shorter : Len(r) = n - 1}, x \in S}

\* The commands: a first word and up to MaxWords - 1 more, and the empty one
Commands ==
    {<<>>} \cup
    {join(<<v>> \o q) : v \in FirstWords, q \in SeqsUpTo(OtherWords, MaxWords - 1)}

\* ------------------------------------------------------------------------
\* parse(str)

Init ==
    /\ pc = "idle"
    /\ str = <<>>
    /\ gameObjects = FakeRoom
    /\ segments = <<>>
    /\ passes = <<>>
    /\ InitParseVars

\* Lines 347-349: the input is tokenized and the verb is its first token.
Parse ==
    /\ pc = "idle"
    /\ \E s \in Commands : str' = s
    /\ inputTokens' = nextToken(TokenList(tokenizeInputString(str')))
    /\ inputVerb' = currentToken(inputTokens')
    /\ verbIdx' = 1
    /\ pc' = "verb"
    /\ UNCHANGED <<ruleIdx, rule, action, ruleTokens, actionParameters,
                   parseResult, startIndex, valueOf, result, gameObjects,
                   attempts, invoked, resolverCalls, left, segments, passes>>

\* Lines 352-354: the verb names the input verb; its rules are iterated.
VerbFound ==
    /\ pc = "verb"
    /\ verbIdx <= Len(verbs)
    /\ includes(verbs[verbIdx].name, inputVerb)
    /\ ruleIdx' = 1
    /\ pc' = "rule"
    /\ UNCHANGED <<str, inputTokens, inputVerb, verbIdx, rule, action,
                   ruleTokens, actionParameters, parseResult, startIndex,
                   valueOf, result, gameObjects, attempts, invoked,
                   resolverCalls, left, segments, passes>>

\* Lines 352-354: the verb does not name the input verb.
VerbSkipped ==
    /\ pc = "verb"
    /\ verbIdx <= Len(verbs)
    /\ ~includes(verbs[verbIdx].name, inputVerb)
    /\ verbIdx' = verbIdx + 1
    /\ UNCHANGED <<pc, str, inputTokens, inputVerb, ruleIdx, rule, action,
                   ruleTokens, actionParameters, parseResult, startIndex,
                   valueOf, result, gameObjects, attempts, invoked,
                   resolverCalls, left, segments, passes>>

\* Lines 455-458: no matching rule was found.
NotUnderstood ==
    /\ pc = "verb"
    /\ verbIdx > Len(verbs)
    /\ result' = s_dontUnderstand
    /\ pc' = "done"
    /\ UNCHANGED <<str, inputTokens, inputVerb, verbIdx, ruleIdx, rule,
                   action, ruleTokens, actionParameters, parseResult,
                   startIndex, valueOf, gameObjects, attempts, invoked,
                   resolverCalls, left, segments, passes>>

\* StartOfInput with the reset left out: the attempt goes on from where the
\* input cursor is
StartOfInput_Kept(tl) == tl

\* Line 364: the index is set to the first non-verb token.
StartOfInput(tl) == [tl EXCEPT !.index = 1]

\* Lines 359-372: the next rule of the verb is set up.
TryRule ==
    /\ pc = "rule"
    /\ ruleIdx <= Len(verbs[verbIdx].ruleActionMap)
    /\ rule' = verbs[verbIdx].ruleActionMap[ruleIdx][1]
    /\ action' = verbs[verbIdx].ruleActionMap[ruleIdx][2]
    /\ inputTokens' = StartOfInput(inputTokens)
    /\ actionParameters' = <<>>
    /\ ruleTokens' = TokenList(tokenizeRule(rule'))
    /\ parseResult' = NoResult
    /\ valueOf' = <<>>
    /\ attempts' = Append(attempts, <<verbIdx, ruleIdx>>)
    /\ pc' = "token"
    /\ UNCHANGED <<str, inputVerb, verbIdx, ruleIdx, startIndex, result,
                   gameObjects, invoked, resolverCalls, left, segments, passes>>

\* Line 359: the verb has no more rules; the next verb is looked at.
RulesExhausted ==
    /\ pc = "rule"
    /\ ruleIdx > Len(verbs[verbIdx].ruleActionMap)
    /\ verbIdx' = verbIdx + 1
    /\ pc' = "verb"
    /\ UNCHANGED <<str, inputTokens, inputVerb, ruleIdx, rule, action,
                   ruleTokens, actionParameters, parseResult, startIndex,
                   valueOf, result, gameObjects, attempts, invoked,
                   resolverCalls, left, segments, passes>>

\* tokenParsingFunctionMap.get(type)(inputTokens)
Resolve(type, objects, tl) ==
    IF type = w_single THEN parseSingle(objects, tl) ELSE parseDanceStyle(tl)

\* Line 375: ruleTokens.nextToken() is null; the while loop ends.
RuleTokensExhausted ==
    /\ pc = "token"
    /\ IsNull(nextToken(ruleTokens))
    /\ ruleTokens' = nextToken(ruleTokens)
    /\ pc' = "check"
    /\ UNCHANGED <<str, inputTokens, inputVerb, verbIdx, ruleIdx, rule,
                   action, actionParameters, parseResult, startIndex, valueOf,
                   result, gameObjects, attempts, invoked, resolverCalls,
                   left, segments, passes>>

\* Lines 387-390: a literal that is not the input token; break.
LiteralMismatch ==
    /\ pc = "token"
    /\ ~IsNull(nextToken(ruleTokens))
    /\ LET ruleToken == currentToken(nextToken(ruleTokens))
           inputToken == currentToken(inputTokens)
       IN  ruleToken.type = TT_WORD /\ ruleToken.value # inputToken
    /\ ruleTokens' = nextToken(ruleTokens)
    /\ pc' = "check"
    /\ UNCHANGED <<str, inputTokens, inputVerb, verbIdx, ruleIdx, rule,
                   action, actionParameters, parseResult, startIndex, valueOf,
                   result, gameObjects, attempts, invoked, resolverCalls,
                   left, segments, passes>>

\* Lines 426-428: a literal that is the input token; the input advances.
LiteralMatch ==
    /\ pc = "token"
    /\ ~IsNull(nextToken(ruleTokens))
    /\ LET ruleToken == currentToken(nextToken(ruleTokens))
           inputToken == currentToken(inputTokens)
       IN  ruleToken.type = TT_WORD /\ ruleToken.value = inputToken
    /\ ruleTokens' = nextToken(ruleTokens)
    /\ inputTokens' = nextToken(inputTokens)
    /\ UNCHANGED <<pc, str, inputVerb, verbIdx, ruleIdx, rule, action,
                   actionParameters, parseResult, startIndex, valueOf, result,
                   gameObjects, attempts, invoked, resolverCalls, left,
                   segments, passes>>

\* Line 407: the result is stored in actionParameters.
Push(parameters, value) == Append(parameters, value)

\* Lines 395-408: a symbol whose parsing function returns no error.
SymbolResolved ==
    /\ pc = "token"
    /\ ~IsNull(nextToken(ruleTokens))
    /\ LET ruleToken == currentToken(nextToken(ruleTokens))
       IN  /\ ruleToken.type # TT_WORD
           /\ ruleToken.type \in tokenParsingFunctionMap
           /\ LET r == Resolve(ruleToken.type, gameObjects, inputTokens)
              IN  /\ r.error = null
                  /\ parseResult' = [result |-> r.result, error |-> r.error]
                  /\ inputTokens' = r.inputTokens
                  /\ actionParameters' = Push(actionParameters, r.result)
                  /\ valueOf' = Append(valueOf,
                                       <<ruleTokens.index + 1, r.result>>)
    /\ startIndex' = inputTokens.index
    /\ resolverCalls' = resolverCalls + 1
    /\ ruleTokens' = nextToken(ruleTokens)
    /\ UNCHANGED <<pc, str, inputVerb, verbIdx, ruleIdx, rule, action,
                   result, gameObjects, attempts, invoked, left, segments,
                   passes>>

\* Lines 409-423: a symbol whose parsing function returns an error, or one
\* with no parsing function; break.
SymbolFailed ==
    /\ pc = "token"
    /\ ~IsNull(nextToken(ruleTokens))
    /\ LET ruleToken == currentToken(nextToken(ruleTokens))
       IN  /\ ruleToken.type # TT_WORD
           /\ IF ruleToken.type \in tokenParsingFunctionMap
              THEN LET r == Resolve(ruleToken.type, gameObjects, inputTokens)
                   IN  /\ r.error # null
                       /\ parseResult' = [result |-> r.result, error |-> r.error]
                       /\ inputTokens' = r.inputTokens
                       /\ startIndex' = inputTokens.index
                       /\ resolverCalls' = resolverCalls + 1
              ELSE UNCHANGED <<parseResult, inputTokens, startIndex,
                               resolverCalls>>
    /\ ruleTokens' = nextToken(ruleTokens)
    /\ pc' = "check"
    /\ UNCHANGED <<str, inputVerb, verbIdx, ruleIdx, rule, action,
                   actionParameters, valueOf, result, gameObjects, attempts,
                   invoked, left, segments, passes>>

\* Line 432: the test that the end of both TokenLists has been reached:
\* ruleTokens.lookAhead() === null && inputTokens.currentToken() === null
BothAtEnd(rt, it) == IsNull(nextToken(rt)) /\ currentToken(it) = null

\* Lines 432-438: the rule is taken as matched; its action is called and
\* parse returns what it returns.
RuleMatched ==
    /\ pc = "check"
    /\ BothAtEnd(ruleTokens, inputTokens)
    /\ result' = Call(action, actionParameters)
    /\ invoked' = Append(invoked, [verb |-> verbIdx, rule |-> ruleIdx,
                                   action |-> action,
                                   args |-> actionParameters])
    /\ pc' = "done"
    /\ UNCHANGED <<str, inputTokens, inputVerb, verbIdx, ruleIdx, rule,
                   action, ruleTokens, actionParameters, parseResult,
                   startIndex, valueOf, gameObjects, attempts, resolverCalls,
                   left, segments, passes>>

\* Lines 440-451: the rule failed; the next rule is tried.
RuleFailed ==
    /\ pc = "check"
    /\ ~BothAtEnd(ruleTokens, inputTokens)
    /\ ruleIdx' = ruleIdx + 1
    /\ left' = [index |-> inputTokens.index,
                actionParameters |-> actionParameters]
    /\ pc' = "rule"
    /\ UNCHANGED <<str, inputTokens, inputVerb, verbIdx, rule, action,
                   ruleTokens, actionParameters, parseResult, startIndex,
                   valueOf, result, gameObjects, attempts, invoked,
                   resolverCalls, segments, passes>>

Next ==
    \/ Parse
    \/ VerbFound
    \/ VerbSkipped
    \/ NotUnderstood
    \/ TryRule
    \/ RulesExhausted
    \/ RuleTokensExhausted
    \/ LiteralMismatch
    \/ LiteralMatch
    \/ SymbolResolved
    \/ SymbolFailed
    \/ RuleMatched
    \/ RuleFailed

Spec == Init /\ [][Next]_vars

\* ------------------------------------------------------------------------
\* One rule attempt run on its own: the while loop of lines 375-429 from the
\* state TryRule sets up, to the break or to the end of the rule tokens.

RECURSIVE RunRule(_, _, _, _)
RunRule(objects, rt, it, parameters) ==
    LET next == nextToken(rt)
        ruleToken == currentToken(next)
        inputToken == currentToken(it)
    IN  IF IsNull(next)
        THEN [ruleTokens |-> next, inputTokens |-> it,
              actionParameters |-> parameters, broke |-> FALSE]
        ELSE IF ruleToken.type = TT_WORD
        THEN IF ruleToken.value # inputToken
             THEN [ruleTokens |-> next, inputTokens |-> it,
                   actionParameters |-> parameters, broke |-> TRUE]
             ELSE RunRule(objects, next, nextToken(it), parameters)
        ELSE IF ruleToken.type \notin tokenParsingFunctionMap
        THEN [ruleTokens |-> next, inputTokens |-> it,
              actionParameters |-> parameters, broke |-> TRUE]
        ELSE LET r == Resolve(ruleToken.type, objects, it)
             IN  IF r.error # null
                 THEN [ruleTokens |-> next, inputTokens |-> r.inputTokens,
                       actionParameters |-> parameters, broke |-> TRUE]
                 ELSE RunRule(objects, next, r.inputTokens,
                              Append(parameters, r.result))

\* The attempt of a rule string on the tokens of the input, started afresh
Alone(ruleString, tokens) ==
    RunRule(gameObjects, TokenList(tokenizeRule(ruleString)),
            [tokens |-> tokens, index |-> 1], <<>>)

\* ------------------------------------------------------------------------
\* tokenizeInputString on its own: a string is normalized, and the joined
\* result is normalized again.

\* The most words of a raw string
MaxRawWords == 4

RawWords == {<<"a">>, <<"a","n">>, <<"T","h","e">>, w_key, <<"O","l","d">>}

\* The white space between two words, and at both ends of a string
Separators == {<<" ">>, <<" "," ">>, <<"\t">>}
Pads == {<<>>, <<" ">>}

RECURSIVE JoinWith(_, _)
JoinWith(pieces, sep) ==
    IF pieces = <<>> THEN <<>>
    ELSE IF Len(pieces) = 1 THEN pieces[1]
    ELSE pieces[1] \o sep \o JoinWith(Tail(pieces), sep)

Assemble(pieces, sep, pad) == pad \o JoinWith(pieces, sep) \o pad

InitNorm ==
    /\ pc = "raw"
    /\ segments \in [parts : SeqsUpTo(RawWords, MaxRawWords),
                     sep : Separators, pad : Pads]
    /\ str = Assemble(segments.parts, segments.sep, segments.pad)
    /\ gameObjects = FakeRoom
    /\ passes = <<>>
    /\ InitParseVars

Normalize ==
    /\ pc = "raw"
    /\ passes' = <<tokenizeInputString(str)>>
    /\ pc' = "normalized"
    /\ UNCHANGED <<str, gameObjects, segments>>
    /\ UNCHANGED parseVars

Renormalize ==
    /\ pc = "normalized"
    /\ passes' = Append(passes, tokenizeInputString(join(passes[1])))
    /\ pc' = "renormalized"
    /\ UNCHANGED <<str, gameObjects, segments>>
    /\ UNCHANGED parseVars

NextNorm == Normalize \/ Renormalize

SpecNorm == InitNorm /\ [][NextNorm]_vars

\* ------------------------------------------------------------------------
\* tokenizeRule on its own: a rule pattern assembled from segments

\* The most segments of a rule pattern
MaxSegments == 4

QuotedSpan(words) == [quoted |-> TRUE, words |-> words]
BareName(name) == [quoted |-> FALSE, words |-> <<name>>]

RuleSegments ==
    {QuotedSpan(<<w_up>>), QuotedSpan(<<w_on>>),
     QuotedSpan(<<w_possession, w_of>>),
     BareName(w_single), BareName(w_dance_style),
     BareName(<<"N","2","\"","x">>)}

SegmentText(seg, sep) ==
    IF seg.quoted THEN quoted(JoinWith(seg.words, sep)) ELSE seg.words[1]

InitRule ==
    /\ pc = "pattern"
    /\ segments \in [parts : SeqsUpTo(RuleSegments, MaxSegments),
                     sep : Separators, pad : Pads]
    /\ rule = Assemble([k \in DOMAIN segments.parts |->
                           SegmentText(segments.parts[k], segments.sep)],
                       segments.sep, segments.pad)
    /\ str = <<>>
    /\ gameObjects = FakeRoom
    /\ passes = <<>>
    /\ inputTokens = TokenList(<<>>)
    /\ inputVerb = undefined
    /\ verbIdx = 0
    /\ ruleIdx = 0
    /\ action = "none"
    /\ ruleTokens = TokenList(<<>>)
    /\ actionParameters = <<>>
    /\ parseResult = NoResult
    /\ startIndex = -1
    /\ valueOf = <<>>
    /\ result = undefined
    /\ attempts = <<>>
    /\ invoked = <<>>
    /\ resolverCalls = 0
    /\ left = NothingLeft

TokenizeRule ==
    /\ pc = "pattern"
    /\ ruleTokens' = TokenList(tokenizeRule(rule))
    /\ pc' = "tokenized"
    /\ UNCHANGED <<str, inputTokens, inputVerb, verbIdx, ruleIdx, rule,
                   action, actionParameters, parseResult, startIndex, valueOf,
                   result, gameObjects, attempts, invoked, resolverCalls,
                   left, segments, passes>>

NextRule == TokenizeRule

SpecRule == InitRule /\ [][NextRule]_vars

\* ------------------------------------------------------------------------
\* parseSingle on its own: a room, a token list and a position in it

\* The most objects of a room other than the fake room, and the most tokens
MaxCandidates == 2
MaxTokens == 3

CandidateNames ==
    {<<w_old, w_rusty, w_key>>, <<w_old, w_man>>, <<w_key, w_old>>, <<w_desk>>}

Rooms ==
    {FakeRoom} \cup
    {[k \in DOMAIN q |-> GameObject(q[k])] :
        q \in SeqsUpTo(CandidateNames, MaxCandidates)}

TokenWords == {w_old, w_key, w_man, w_to}

InitSingle ==
    /\ pc = "call"
    /\ gameObjects \in Rooms
    /\ \E tokens \in SeqsUpTo(TokenWords, MaxTokens) :
         \E index \in 0..Len(tokens) :
            inputTokens = [tokens |-> tokens, index |-> index]
    /\ str = <<>>
    /\ segments = <<>>
    /\ passes = <<>>
    /\ inputVerb = undefined
    /\ verbIdx = 0
    /\ ruleIdx = 0
    /\ rule = <<>>
    /\ action = "none"
    /\ ruleTokens = TokenList(<<>>)
    /\ actionParameters = <<>>
    /\ parseResult = NoResult
    /\ startIndex = -1
    /\ valueOf = <<>>
    /\ result = undefined
    /\ attempts = <<>>
    /\ invoked = <<>>
    /\ resolverCalls = 0
    /\ left = NothingLeft

ParseSingle ==
    /\ pc = "call"
    /\ LET r == parseSingle(gameObjects, inputTokens)
       IN  /\ parseResult' = [result |-> r.result, error |-> r.error]
           /\ inputTokens' = r.inputTokens
    /\ startIndex' = inputTokens.index
    /\ pc' = "returned"
    /\ UNCHANGED <<str, inputVerb, verbIdx, ruleIdx, rule, action, ruleTokens,
                   actionParameters, valueOf, result, gameObjects, attempts,
                   invoked, resolverCalls, left, segments, passes>>

NextSingle == ParseSingle

SpecSingle == InitSingle /\ [][NextSingle]_vars

\* ------------------------------------------------------------------------
\* What the claims speak of

\* A rule fully matches the input: every token of the rule is processed
\* successfully and the input cursor has no remaining token.
FullyMatches(ruleString, tokens) ==
    LET run == Alone(ruleString, tokens)
    IN  ~run.broke /\ IsNull(run.inputTokens)

\* The <<verb, rule>> positions of the rules of the verbs that name the
\* input verb, in declaration order
RECURSIVE RulesInOrder(_, _, _)
RulesInOrder(verb, v, r) ==
    IF v > Len(verbs) THEN <<>>
    ELSE IF ~includes(verbs[v].name, verb) \/ r > Len(verbs[v].ruleActionMap)
    THEN RulesInOrder(verb, v + 1, 1)
    ELSE <<<<v, r>>>> \o RulesInOrder(verb, v, r + 1)

Candidates == RulesInOrder(inputVerb, 1, 1)

CandidateMatches(k) ==
    FullyMatches(verbs[Candidates[k][1]].ruleActionMap[Candidates[k][2]][1],
                 inputTokens.tokens)

SomeRuleMatches == \E k \in DOMAIN Candidates : CandidateMatches(k)

FirstMatching ==
    CHOOSE k \in DOMAIN Candidates :
        CandidateMatches(k) /\ \A j \in 1..(k - 1) : ~CandidateMatches(j)

\* The JavaScript indices of the symbol tokens of a rule, left to right
RECURSIVE SymbolIndices(_, _)
SymbolIndices(tokens, k) ==
    IF k > Len(tokens) THEN <<>>
    ELSE (IF tokens[k].type # TT_WORD THEN <<k - 1>> ELSE <<>>)
         \o SymbolIndices(tokens, k + 1)

\* C1: an action is invoked only if every token of the rule was processed
\* successfully (the loop ran to the end of the rule tokens, it did not
\* break) and the input cursor has no remaining token.
C1_InvokedOnlyOnFullMatch ==
    invoked # <<>> =>
        /\ ruleTokens.index = Len(ruleTokens.tokens)
        /\ IsNull(inputTokens)

\* C2: when a symbol parsing function returns an error, at any position of
\* the rule and wherever it leaves the input cursor, the attempt is
\* abandoned: the action is not invoked, and the result is the
\* not-understood outcome if no rule matches.
C2_ResolverFailureAbandonsRule ==
    parseResult.error # null =>
        /\ invoked = <<>>
        /\ pc = "done" => result = s_dontUnderstand

\* C3: the parameter list passed to an action has as many elements as the
\* rule has symbol tokens, and its i-th element is the value resolved for
\* the i-th symbol token of the rule.
C3_ParametersMatchSymbols ==
    invoked # <<>> =>
        LET args == invoked[1].args
            symbols == SymbolIndices(ruleTokens.tokens, 1)
        IN  /\ Len(args) = Len(symbols)
            /\ Len(valueOf) = Len(symbols)
            /\ \A i \in DOMAIN args : valueOf[i] = <<symbols[i], args[i]>>

\* C7: rules are attempted strictly in declaration order; the action
\* invoked is that of the first rule in this order that fully matches, no
\* rule is attempted after it, and an action is invoked once on a
\* successful parse and never when the result is the not-understood outcome.
C7_FirstFullMatchWins ==
    /\ Len(attempts) <= Len(Candidates)
    /\ attempts = SubSeq(Candidates, 1, Len(attempts))
    /\ Len(invoked) <= 1
    /\ invoked # <<>> => pc = "done"
    /\ pc = "done" =>
        IF SomeRuleMatches
        THEN /\ Len(invoked) = 1
             /\ <<invoked[1].verb, invoked[1].rule>> = Candidates[FirstMatching]
             /\ attempts = SubSeq(Candidates, 1, FirstMatching)
             /\ result # s_dontUnderstand
        ELSE /\ invoked = <<>>
             /\ result = s_dontUnderstand

\* C8: if no verb names the first input token, parse yields the
\* not-understood outcome without attempting a rule and without calling a
\* symbol parsing function or an action; and if every rule of every verb
\* that names it fails, the result is the not-understood outcome too.
C8_NotUnderstood ==
    /\ (pc # "idle" /\ Candidates = <<>>) =>
            /\ attempts = <<>>
            /\ resolverCalls = 0
            /\ invoked = <<>>
            /\ pc = "done" => result = s_dontUnderstand
    /\ (pc = "done" /\ ~SomeRuleMatches) => result = s_dontUnderstand

\* C10: every rule attempt starts with the input cursor at index 1, a fresh
\* rule cursor and no parameters, so that when the attempt ends its
\* cursors, its parameters and its outcome are those of the same rule
\* attempted alone on the same input, whatever earlier attempts left.
C10_AttemptsStartAfresh ==
    /\ (pc = "token" /\ attempts # <<>> /\ ruleTokens.index = -1) =>
            /\ inputTokens.index = 1
            /\ actionParameters = <<>>
    /\ pc = "check" =>
            LET run == Alone(rule, inputTokens.tokens)
            IN  /\ ruleTokens = run.ruleTokens
                /\ inputTokens = run.inputTokens
                /\ actionParameters = run.actionParameters

\* C10, its case: a rule matches after an earlier attempt failed and left
\* the input cursor elsewhere and a parameter behind.
C10_Witness ==
    /\ pc = "check"
    /\ BothAtEnd(ruleTokens, inputTokens)
    /\ left.index > 1
    /\ left.actionParameters # <<>>
    /\ actionParameters # <<>>

\* ------------------------------------------------------------------------
\* Normalization

IsArticle(word) == \E k \in DOMAIN ARTICLES : ARTICLES[k] = word

\* The words a raw string was assembled from, in lower case, without the
\* articles
RECURSIVE WithoutArticles(_)
WithoutArticles(words) ==
    IF words = <<>> THEN <<>>
    ELSE (IF IsArticle(toLowerCase(words[1])) THEN <<>>
          ELSE <<toLowerCase(words[1])>>)
         \o WithoutArticles(Tail(words))

\* The tokens of a result that are not the empty string (what split leaves
\* for a string with no word)
RECURSIVE NonEmpty(_)
NonEmpty(tokens) ==
    IF tokens = <<>> THEN <<>>
    ELSE (IF tokens[1] = <<>> THEN <<>> ELSE <<tokens[1]>>)
         \o NonEmpty(Tail(tokens))

\* C4: normalization is idempotent: normalizing the space-joined result of
\* tokenizeInputString(s) yields the same tokens as tokenizeInputString(s).
C4_NormalizeIdempotent ==
    pc = "renormalized" => passes[2] = passes[1]

\* C5: the result of tokenizeInputString holds no article, wherever the
\* articles stand in the input, and the remaining words are in lower case
\* and in their original order.
C5_NoArticleLeft ==
    pc = "normalized" =>
        /\ \A k \in DOMAIN passes[1] : ~IsArticle(passes[1][k])
        /\ NonEmpty(passes[1]) = WithoutArticles(segments.parts)

\* ------------------------------------------------------------------------
\* parseSingle

\* The length of the longest run of consecutive tokens, from the JavaScript
\* index start on, that are all members of the name
RunLength(name, tokens, start) ==
    LET fits(n) == \A j \in 1..n : \E i \in DOMAIN name : name[i] = tokens[start + j]
    IN  CHOOSE n \in 0..(Len(tokens) - start) :
            fits(n) /\ \A m \in (n + 1)..(Len(tokens) - start) : ~fits(m)

ScoreOf(k) == RunLength(gameObjects[k].name, inputTokens.tokens, startIndex)

BestScore ==
    IF gameObjects = <<>> THEN 0
    ELSE CHOOSE n \in {ScoreOf(k) : k \in DOMAIN gameObjects} :
            \A k \in DOMAIN gameObjects : ScoreOf(k) <= n

Winners == {k \in DOMAIN gameObjects : ScoreOf(k) = BestScore}

\* C6: parseSingle scores each candidate by the longest run of input tokens
\* from the starting position that are members of its name; one candidate
\* at the maximum positive score is returned with the cursor at start plus
\* that score; several at it give 'multiple objects found' and no
\* candidate; none above 0 gives 'no objects found' and no candidate.
C6_ParseSingleChoosesUniqueBest ==
    pc = "returned" =>
        IF BestScore > 0 /\ Cardinality(Winners) = 1
        THEN /\ parseResult.error = null
             /\ parseResult.result = gameObjects[CHOOSE k \in Winners : TRUE]
             /\ inputTokens.index = startIndex + BestScore
        ELSE IF BestScore > 0
        THEN /\ parseResult.error = s_multipleObjectsFound
             /\ parseResult.result = null
        ELSE /\ parseResult.error = s_noObjectsFound
             /\ parseResult.result = null

\* C6, its case: one candidate is returned for a run of two tokens while
\* another candidate scored on the first of them only.
C6_Witness ==
    /\ pc = "returned"
    /\ parseResult.error = null
    /\ BestScore = 2
    /\ inputTokens.index = startIndex + 2
    /\ \E k \in DOMAIN gameObjects : ScoreOf(k) = 1

\* ------------------------------------------------------------------------
\* tokenizeRule

\* One literal per word of a quoted span, one symbol per bare name
RECURSIVE ExpectedTokens(_)
ExpectedTokens(parts) ==
    IF parts = <<>> THEN <<>>
    ELSE (IF parts[1].quoted
          THEN [k \in DOMAIN parts[1].words |-> Token(TT_WORD, parts[1].words[k])]
          ELSE <<Token(parts[1].words[1], null)>>)
         \o ExpectedTokens(Tail(parts))

\* C9: for a pattern of white-space-separated segments, each a quoted span
\* of lower-case words or a bare name, tokenizeRule returns in order one
\* literal per word of each span and one symbol named after each bare
\* segment; the empty and the all-white-space pattern give no token.
C9_TokenizeRuleBySegments ==
    pc = "tokenized" => ruleTokens.tokens = ExpectedTokens(segments.parts)

\* C9, its case: '"up" single "on" single' gives Literal(up),
\* Symbol(single), Literal(on), Symbol(single).
C9_Witness ==
    /\ pc = "tokenized"
    /\ rule = quoted(w_up) \o sp \o w_single \o sp \o quoted(w_on) \o sp \o w_single
    /\ ruleTokens.tokens =
          <<Token(TT_WORD, w_up), Token(w_single, null),
            Token(TT_WORD, w_on), Token(w_single, null)>>

\* ------------------------------------------------------------------------
\* Cursor movement within a rule attempt

\* The step calls a symbol parsing function
ResolverStep == resolverCalls' = resolverCalls + 1

\* What a step of a rule attempt does to the cursors: over the processing
\* of a rule token, and over the test that ends the attempt
CursorsForwardStep ==
    /\ (pc = "token") =>
          /\ ruleTokens'.index = ruleTokens.index + 1
          /\ inputTokens'.index >= inputTokens.index
          /\ inputTokens'.tokens = inputTokens.tokens
          /\ (ResolverStep /\ currentToken(ruleTokens').type = w_single
                /\ parseResult'.error = null)
                => (inputTokens'.index >= inputTokens.index + 1)
    /\ (pc = "check") =>
          /\ ruleTokens'.index = ruleTokens.index
          /\ inputTokens'.index = inputTokens.index

\* C11: within a rule attempt, over the processing of each rule token the
\* rule cursor advances by exactly one position and the input cursor, after
\* a literal comparison or a call of a symbol parsing function (successful
\* or failed), is never before where it was; a successful parseSingle call
\* advances the input cursor by at least one token.  The test that ends the
\* attempt moves neither cursor.
C11_CursorsMoveForward == [][CursorsForwardStep]_vars

\* C11, its case: after a parseSingle call that succeeded and advanced the
\* input cursor, a later call of the attempt failed and left the cursor
\* beyond where it started.
C11_Witness ==
    /\ pc = "check"
    /\ actionParameters # <<>>
    /\ parseResult.error # null
    /\ inputTokens.index > startIndex
    /\ startIndex > 1

====
